---- MODULE Spec2Model ----
(***************************************************************************)
(* Permission transfer engine (vir::Stmt::apply_on_state), accessibility   *)
(* combinator (DefinitelyAccessibleAnalysis::compute_accessible_state) and *)
(* pointwise run (DefinitelyAccessibleAnalysis::run_analysis) of           *)
(* prusti-dev.                                                             *)
(***************************************************************************)
EXTENDS Integers, Sequences, FiniteSets, TLC

VARIABLES acc, pred, moved, framing_stack, dropped, failed, last, applied,
          budget, nBegin, nEnd,
          def_init, maybe_mut_borrowed, maybe_shared_borrowed,
          definitely_accessible, definitely_owned, pc, todo,
          body, facts, analysis_state, rpc, block, statement_index, successors

\* the permission transfer engine and its caller: the State fields, the
\* dropped accumulator, whether an assertion has aborted the run, and the
\* caller's history (last statement, kinds applied so far, statements left,
\* BeginFrame and EndFrame statements accepted)
pvars == <<acc, pred, moved, framing_stack, dropped, failed, last, applied,
           budget, nBegin, nEnd>>

\* the accessibility combinator
avars == <<def_init, maybe_mut_borrowed, maybe_shared_borrowed,
           definitely_accessible, definitely_owned, pc, todo>>

\* run_analysis: the analysed body, what the upstream analyses supply, the
\* pointwise result, and the position of the run in its loops
rvars == <<body, facts, analysis_state, rpc, block, statement_index,
           successors>>

vars == <<pvars, avars, rvars>>

(***************************************************************************)
(* Bounds of the model.                                                    *)
(***************************************************************************)
\* longest projection list of a place
MaxDepth == 2
\* largest amount (in halves) a map entry may reach
MaxAmt == 3
\* number of statements applied to one state
MaxSteps == 2
\* number of statements of a run of frame statements
MaxFrameSteps == 4
\* longest projection list of a place of the analysed body
MaxMirDepth == 2
\* largest set of places an upstream analysis supplies for a point
MaxFacts == 2
\* deepest nesting of frames
MaxFrames == 2

(***************************************************************************)
(* Places: a base variable followed by projections.  Every variable has    *)
(* the reference type T = struct { f: T, g: Int }.                         *)
(***************************************************************************)
Vars == {"x", "y"}

RECURSIVE PlacesOfDepth(_)
PlacesOfDepth(n) ==
  IF n = 0 THEN {<<v>> : v \in Vars}
  ELSE LET up == {p \in PlacesOfDepth(n - 1) : p[Len(p)] # "g"}
       IN  {Append(p, "f") : p \in up} \cup {Append(p, "g") : p \in up}

Places == UNION {PlacesOfDepth(n) : n \in 0..MaxDepth}

\* a right-hand side that is not a place (a constant expression)
NoPlace == <<>>

\* Frac::one(), amounts are counted in halves
Full == 2

Fracs == 1..Full

is_base(p) == Len(p) = 1

base(p) == p[1]

\* p.has_prefix(q): q is p or an ancestor of p
has_prefix(p, q) == Len(q) <= Len(p) /\ SubSeq(p, 1, Len(q)) = q

has_proper_prefix(p, q) == has_prefix(p, q) /\ p # q

all_proper_prefixes(p) == {SubSeq(p, 1, n) : n \in 1..(Len(p) - 1)}

\* p.replace_prefix(old, new), for a p that has the prefix old
replace_prefix(p, old, new) == new \o SubSeq(p, Len(old) + 1, Len(p))

\* place.get_type().is_ref()
is_ref(p) == Len(p) >= 1 /\ p[Len(p)] # "g"

\* place.typed_ref_name(): the predicate name of a reference-typed place
typed_ref_name(p) == IF is_ref(p) THEN "T" ELSE "None"

get_type(p) == IF is_ref(p) THEN "T" ELSE "Int"

(***************************************************************************)
(* Permissions and the predicate table.                                    *)
(***************************************************************************)
Acc(p, fr) == [kind |-> "Acc", place |-> p, frac |-> fr]

Pred(p, fr) == [kind |-> "Pred", place |-> p, frac |-> fr]

\* perm * frac
scale(perm, fr) == [perm EXCEPT !.frac = (@ * fr) \div Full]

map_place(perm, old, new) ==
  [perm EXCEPT !.place = replace_prefix(@, old, new)]

\* the formal self-parameter of a predicate
pred_self_place == <<"self">>

\* predicate.get_permissions() of T: acc(self.f) && T(self.f) && acc(self.g)
get_permissions ==
  {Acc(<<"self", "f">>, Full), Pred(<<"self", "f">>, Full),
   Acc(<<"self", "g">>, Full)}

\* amount a permission set holds for a kind and a place, 0 when none
PermAmt(perms, k, p) ==
  IF \E q \in perms : q.kind = k /\ q.place = p
  THEN (CHOOSE q \in perms : q.kind = k /\ q.place = p).frac
  ELSE 0

(***************************************************************************)
(* The permission state: s.acc and s.pred map a place to its amount (0     *)
(* when the place is not a key), s.moved is a set of places, s.fs the      *)
(* stack of saved snapshots, s.dropped the accumulator of the caller.      *)
(***************************************************************************)
Cur == [acc |-> acc, pred |-> pred, moved |-> moved, fs |-> framing_stack,
        dropped |-> dropped, ok |-> TRUE]

Fail(s) == [s EXCEPT !.ok = FALSE]

contains_acc(s, p) == s.acc[p] > 0

contains_pred(s, p) == s.pred[p] > 0

contains_perm(s, perm) ==
  IF perm.kind = "Acc" THEN contains_acc(s, perm.place)
  ELSE contains_pred(s, perm.place)

is_prefix_of_some_moved(s, p) == \E m \in s.moved : has_prefix(m, p)

is_prefix_of_some_pred(s, p) ==
  \E q \in Places : s.pred[q] > 0 /\ has_prefix(q, p)

is_proper_prefix_of_some_acc(s, p) ==
  \E q \in Places : s.acc[q] > 0 /\ has_proper_prefix(q, p)

insert_moved(s, p) == [s EXCEPT !.moved = @ \cup {p}]

\* the amounts of the inserted permissions are added to the amounts held
insert_all_perms(s, perms) ==
  [s EXCEPT !.acc = [p \in Places |-> @[p] + PermAmt(perms, "Acc", p)],
            !.pred = [p \in Places |-> @[p] + PermAmt(perms, "Pred", p)]]

minus(a, b) == IF a > b THEN a - b ELSE 0

\* the amounts of the removed permissions are taken from the amounts held
remove_all_perms(s, perms) ==
  [s EXCEPT !.acc = [p \in Places |-> minus(@[p], PermAmt(perms, "Acc", p))],
            !.pred = [p \in Places |-> minus(@[p], PermAmt(perms, "Pred", p))]]

insert_pred(s, p, fr) == [s EXCEPT !.pred[p] = @ + fr]

remove_pred(s, p, fr) == [s EXCEPT !.pred[p] = minus(@, fr)]

\* the entries of a map as permissions
AccPerms(s, P(_)) == {Acc(p, s.acc[p]) : p \in {q \in Places : s.acc[q] > 0 /\ P(q)}}

PredPerms(s, P(_)) == {Pred(p, s.pred[p]) : p \in {q \in Places : s.pred[q] > 0 /\ P(q)}}

remove_acc_matching_place(s, P(_)) ==
  [s EXCEPT !.acc = [p \in Places |-> IF P(p) THEN 0 ELSE @[p]]]

remove_pred_matching_place(s, P(_)) ==
  [s EXCEPT !.pred = [p \in Places |-> IF P(p) THEN 0 ELSE @[p]]]

remove_moved_matching(s, P(_)) ==
  [s EXCEPT !.moved = {m \in @ : ~P(m)}]

remove_matching(s, P(_)) ==
  remove_pred_matching_place(remove_acc_matching_place(s, P), P)

\* the entries of map m rooted at from, rewritten to be rooted at to
Relocated(m, from, to) ==
  [p \in Places |->
     IF has_prefix(p, to) /\ replace_prefix(p, to, from) \in Places
     THEN m[replace_prefix(p, to, from)] ELSE 0]

insert_all_acc(s, m) == [s EXCEPT !.acc = [p \in Places |-> @[p] + m[p]]]

insert_all_pred(s, m) == [s EXCEPT !.pred = [p \in Places |-> @[p] + m[p]]]

Snapshot(s) == [acc |-> s.acc, pred |-> s.pred, moved |-> s.moved]

begin_frame(s) == [s EXCEPT !.fs = Append(@, Snapshot(s))]

end_frame(s) ==
  IF s.fs = <<>> THEN Fail(s)
  ELSE LET top == s.fs[Len(s.fs)]
       IN  [s EXCEPT !.acc = top.acc, !.pred = top.pred, !.moved = top.moved,
                     !.fs = SubSeq(@, 1, Len(@) - 1)]

(***************************************************************************)
(* Stmt::apply_on_state, one operator per statement kind.  Each takes the  *)
(* state and gives the state the statement leaves; ok is FALSE when an     *)
(* assertion of the statement fails (the state is then the one at the      *)
(* failing assertion).                                                     *)
(***************************************************************************)
NotBaseAcc(perms) == {q \in perms : ~(q.kind = "Acc" /\ is_base(q.place))}

ApplyInhale(s, perms) == insert_all_perms(s, NotBaseAcc(perms))

\* an Exhale that grants the permissions, as Inhale does
ApplyExhale_Inserts(s, perms) == insert_all_perms(s, NotBaseAcc(perms))

ApplyExhale(s, perms) == remove_all_perms(s, NotBaseAcc(perms))

\* a MethodCall that leaves the moved places of its targets moved
ApplyMethodCall_KeepsMoved(s, targets) ==
  LET InTarget(p) == base(p) \in targets
      InTargetNotBase(p) == ~is_base(p) /\ base(p) \in targets
      d1 == [s EXCEPT !.dropped = @ \cup PredPerms(s, InTarget)]
      d2 == [d1 EXCEPT !.dropped = @ \cup AccPerms(s, InTargetNotBase)]
      s2 == remove_pred_matching_place(d2, InTarget)
  IN  remove_acc_matching_place(s2, InTargetNotBase)

ApplyMethodCall(s, targets) ==
  LET InTarget(p) == base(p) \in targets
      InTargetNotBase(p) == ~is_base(p) /\ base(p) \in targets
      d1 == [s EXCEPT !.dropped = @ \cup PredPerms(s, InTarget)]
      d2 == [d1 EXCEPT !.dropped = @ \cup AccPerms(s, InTargetNotBase)]
      s1 == remove_moved_matching(d2, InTarget)
      s2 == remove_pred_matching_place(s1, InTarget)
  IN  remove_acc_matching_place(s2, InTargetNotBase)

\* the checks of a Move or MutableBorrow on its right-hand side
RhsChecks(s, rhs) ==
  /\ rhs # NoPlace
  /\ is_ref(rhs)
  /\ ~is_prefix_of_some_moved(s, rhs)
  /\ \A prefix \in all_proper_prefixes(rhs) : ~contains_pred(s, prefix)

\* a clearing of lhs that does not record the access permissions it removes
AssignDropLhs_ForgetsAcc(s, lhs) ==
  LET UnderLhs(p) == has_prefix(p, lhs)
      ProperUnderLhs(p) == has_proper_prefix(p, lhs)
      d1 == [s EXCEPT !.dropped = @ \cup PredPerms(s, UnderLhs)]
      s1 == remove_moved_matching(d1, UnderLhs)
      s2 == remove_pred_matching_place(s1, UnderLhs)
  IN  remove_acc_matching_place(s2, ProperUnderLhs)

\* lines 91-104: what is rooted at lhs is dropped
AssignDropLhs(s, lhs) ==
  LET UnderLhs(p) == has_prefix(p, lhs)
      ProperUnderLhs(p) == has_proper_prefix(p, lhs)
      d1 == [s EXCEPT !.dropped = @ \cup PredPerms(s, UnderLhs)]
      d2 == [d1 EXCEPT !.dropped = @ \cup AccPerms(s, ProperUnderLhs)]
      s1 == remove_moved_matching(d2, UnderLhs)
      s2 == remove_pred_matching_place(s1, UnderLhs)
  IN  remove_acc_matching_place(s2, ProperUnderLhs)

\* a transfer that also takes the access permission on rhs itself away
AssignTransfer_DropsRhsAcc(s, original_state, lhs, rhs) ==
  LET UnderLhs(p) == has_prefix(p, lhs)
      UnderRhs(p) == has_prefix(p, rhs)
      s1 == remove_pred_matching_place(s, UnderRhs)
      s2 == remove_acc_matching_place(s1, UnderRhs)
      s3 == remove_pred_matching_place(s2, UnderLhs)
      s4 == remove_acc_matching_place(s3, UnderLhs)
      s5 == insert_all_acc(s4, Relocated(original_state.acc, rhs, lhs))
  IN  insert_all_pred(s5, Relocated(original_state.pred, rhs, lhs))

\* a transfer that leaves the predicate permissions of rhs on rhs
AssignTransfer_KeepsRhsPred(s, original_state, lhs, rhs) ==
  LET UnderLhs(p) == has_prefix(p, lhs)
      ProperUnderRhs(p) == has_proper_prefix(p, rhs)
      s2 == remove_acc_matching_place(s, ProperUnderRhs)
      s3 == remove_pred_matching_place(s2, UnderLhs)
      s4 == remove_acc_matching_place(s3, UnderLhs)
      s5 == insert_all_acc(s4, Relocated(original_state.acc, rhs, lhs))
  IN  insert_all_pred(s5, Relocated(original_state.pred, rhs, lhs))

\* lines 112-129: the permissions of rhs go to lhs
AssignTransfer(s, original_state, lhs, rhs) ==
  LET UnderLhs(p) == has_prefix(p, lhs)
      UnderRhs(p) == has_prefix(p, rhs)
      ProperUnderRhs(p) == has_proper_prefix(p, rhs)
      s1 == remove_pred_matching_place(s, UnderRhs)
      s2 == remove_acc_matching_place(s1, ProperUnderRhs)
      s3 == remove_pred_matching_place(s2, UnderLhs)
      s4 == remove_acc_matching_place(s3, UnderLhs)
      s5 == insert_all_acc(s4, Relocated(original_state.acc, rhs, lhs))
  IN  insert_all_pred(s5, Relocated(original_state.pred, rhs, lhs))

\* an Assign whose Copy takes away what is rooted at rhs as well
ApplyAssign_CopyClearsRhs(s, lhs, rhs, kind) ==
  IF kind \in {"Move", "MutableBorrow"} /\ ~RhsChecks(s, rhs) THEN Fail(s)
  ELSE LET s0 == IF kind = "Move" THEN insert_moved(s, rhs) ELSE s
           s1 == AssignDropLhs(s0, lhs)
       IN  IF rhs # NoPlace /\ is_ref(rhs)
           THEN IF kind = "Copy" THEN Fail(s1)
                ELSE AssignTransfer(s1, s, lhs, rhs)
           ELSE IF kind = "Copy"
                THEN IF rhs # NoPlace THEN AssignDropLhs(s1, rhs) ELSE s1
                ELSE Fail(s1)

\* an Assign whose Move does not mark rhs as moved
ApplyAssign_NoMovedMark(s, lhs, rhs, kind) ==
  IF kind \in {"Move", "MutableBorrow"} /\ ~RhsChecks(s, rhs) THEN Fail(s)
  ELSE LET s1 == AssignDropLhs(s, lhs)
       IN  IF rhs # NoPlace /\ is_ref(rhs)
           THEN IF kind = "Copy" THEN Fail(s1)
                ELSE AssignTransfer(s1, s, lhs, rhs)
           ELSE IF kind = "Copy" THEN s1 ELSE Fail(s1)

ApplyAssign(s, lhs, rhs, kind) ==
  IF kind \in {"Move", "MutableBorrow"} /\ ~RhsChecks(s, rhs) THEN Fail(s)
  ELSE LET s0 == IF kind = "Move" THEN insert_moved(s, rhs) ELSE s
           s1 == AssignDropLhs(s0, lhs)
       IN  IF rhs # NoPlace /\ is_ref(rhs)
           THEN IF kind = "Copy" THEN Fail(s1)
                ELSE AssignTransfer(s1, s, lhs, rhs)
           ELSE IF kind = "Copy" THEN s1 ELSE Fail(s1)

\* the body of the predicate of place, self replaced by place
BodyOf(place) ==
  {map_place(perm, pred_self_place, place) : perm \in get_permissions}

ApplyFold(s, place, frac) ==
  IF contains_pred(s, place) \/ is_prefix_of_some_moved(s, place)
     \/ typed_ref_name(place) = "None"
  THEN Fail(s)
  ELSE LET places_in_pred == {scale(perm, frac) : perm \in BodyOf(place)}
       IN  insert_pred(remove_all_perms(s, places_in_pred), place, frac)

ApplyUnfold(s, place, frac) ==
  IF ~contains_pred(s, place) \/ is_prefix_of_some_moved(s, place)
     \/ typed_ref_name(place) = "None"
  THEN Fail(s)
  ELSE LET places_in_pred == BodyOf(place)
       IN  IF \E contained_place \in places_in_pred :
                 contains_perm(s, contained_place)
           THEN Fail(s)
           ELSE insert_all_perms(remove_pred(s, place, frac), places_in_pred)

ApplyHavoc(s) ==
  LET NotBase(p) == ~is_base(p)
  IN  remove_matching(s, NotBase)

\* a BeginFrame that saves nothing
ApplyBeginFrame_NoPush(s) == s

ApplyBeginFrame(s) == begin_frame(s)

\* an EndFrame that leaves the stack as it is
ApplyEndFrame_NoPop(s) == s

ApplyEndFrame(s) == end_frame(s)

\* an ExpireBorrow that does not check the moved places under rhs
ApplyExpireBorrow_SkipsMovedCheck(s, lhs, rhs) ==
  IF \/ ~is_ref(lhs)
     \/ ~is_ref(rhs)
     \/ get_type(lhs) # get_type(rhs)
     \/ is_proper_prefix_of_some_acc(s, rhs)
     \/ is_prefix_of_some_pred(s, rhs)
     \/ is_prefix_of_some_moved(s, lhs)
  THEN Fail(s)
  ELSE LET UnderLhs(p) == has_prefix(p, lhs)
           ProperUnderLhs(p) == has_proper_prefix(p, lhs)
           UnderRhs(p) == has_prefix(p, rhs)
           ProperUnderRhs(p) == has_proper_prefix(p, rhs)
           s1 == remove_pred_matching_place(s, UnderLhs)
           s2 == remove_acc_matching_place(s1, ProperUnderLhs)
           s3 == remove_pred_matching_place(s2, UnderRhs)
           s4 == remove_acc_matching_place(s3, ProperUnderRhs)
           s5 == remove_moved_matching(s4, UnderRhs)
           s6 == insert_all_acc(s5, Relocated(s.acc, lhs, rhs))
       IN  insert_all_pred(s6, Relocated(s.pred, lhs, rhs))

ApplyExpireBorrow(s, lhs, rhs) ==
  IF \/ ~is_ref(lhs)
     \/ ~is_ref(rhs)
     \/ get_type(lhs) # get_type(rhs)
     \/ is_proper_prefix_of_some_acc(s, rhs)
     \/ is_prefix_of_some_pred(s, rhs)
     \/ is_prefix_of_some_moved(s, rhs)
     \/ is_prefix_of_some_moved(s, lhs)
  THEN Fail(s)
  ELSE LET UnderLhs(p) == has_prefix(p, lhs)
           ProperUnderLhs(p) == has_proper_prefix(p, lhs)
           UnderRhs(p) == has_prefix(p, rhs)
           ProperUnderRhs(p) == has_proper_prefix(p, rhs)
           s1 == remove_pred_matching_place(s, UnderLhs)
           s2 == remove_acc_matching_place(s1, ProperUnderLhs)
           s3 == remove_pred_matching_place(s2, UnderRhs)
           s4 == remove_acc_matching_place(s3, ProperUnderRhs)
           s5 == remove_moved_matching(s4, UnderRhs)
           s6 == insert_all_acc(s5, Relocated(s.acc, lhs, rhs))
       IN  insert_all_pred(s6, Relocated(s.pred, lhs, rhs))

(***************************************************************************)
(* The engine as a state machine: a caller builds a state and applies      *)
(* statements to it one after the other; a failed assertion ends the run.  *)
(***************************************************************************)
EmptyMap == [p \in Places |-> 0]

MapOf(S, fr) == [p \in Places |-> IF p \in S THEN fr ELSE 0]

\* states a caller hands to State::new
InitStates ==
  { [acc |-> MapOf({<<"x">>, <<"y">>}, Full),
     pred |-> MapOf({<<"x">>, <<"y">>}, Full), moved |-> {}],
    [acc |-> MapOf({<<"x">>, <<"x", "f">>, <<"x", "g">>, <<"y">>}, Full),
     pred |-> MapOf({<<"x", "f">>, <<"y">>}, Full), moved |-> {}],
    [acc |-> MapOf({<<"x">>, <<"x", "f">>, <<"x", "g">>, <<"y">>}, 1),
     pred |-> MapOf({<<"x", "f">>}, 1), moved |-> {}],
    [acc |-> MapOf({<<"x">>}, Full), pred |-> EmptyMap, moved |-> {}] }

\* the accessibility combinator is not run
AccessIdle ==
  /\ def_init = {}
  /\ maybe_mut_borrowed = {}
  /\ maybe_shared_borrowed = {}
  /\ definitely_accessible = {}
  /\ definitely_owned = {}
  /\ pc = "idle"
  /\ todo = {}

\* run_analysis is not run
RunIdle ==
  /\ body = <<>>
  /\ facts = <<>>
  /\ analysis_state = {}
  /\ rpc = "idle"
  /\ block = 0
  /\ statement_index = 0
  /\ successors = {}

\* a fresh state and an empty accumulator; n statements will be applied
InitRun(n) ==
  /\ \E i \in InitStates : acc = i.acc /\ pred = i.pred /\ moved = i.moved
  /\ framing_stack = <<>>
  /\ dropped = {}
  /\ failed = FALSE
  /\ last = [kind |-> "None"]
  /\ applied = {}
  /\ budget = n
  /\ nBegin = 0
  /\ nEnd = 0
  /\ AccessIdle
  /\ RunIdle

Init == InitRun(MaxSteps)

\* the result stays within the bounds of the model
Bounded(r) ==
  /\ \A p \in Places : r.acc[p] <= MaxAmt /\ r.pred[p] <= MaxAmt
  /\ Len(r.fs) <= MaxFrames

\* every entry of m rooted at from has its relocated place in the model
Fits(m, from, to) ==
  \A p \in Places :
    (m[p] > 0 /\ has_prefix(p, from)) => replace_prefix(p, from, to) \in Places

\* a statement can be applied: no assertion has failed so far
Running == ~failed /\ budget > 0

\* the state after a statement: the variables take the result of the statement
Commit(result, stmt) ==
  \E r \in {result} :
    /\ Bounded(r)
    /\ acc' = r.acc
    /\ pred' = r.pred
    /\ moved' = r.moved
    /\ framing_stack' = r.fs
    /\ dropped' = r.dropped
    /\ failed' = ~r.ok
    /\ last' = stmt
    /\ applied' = applied \cup {stmt.kind}
    /\ budget' = budget - 1
    /\ UNCHANGED <<avars, rvars>>

\* the permission sets an inhaled or exhaled expression can grant
PermInputs ==
  {{Acc(p, fr)} : p \in Places, fr \in Fracs}
    \cup {{Pred(p, fr)} : p \in {q \in Places : is_ref(q)}, fr \in Fracs}

AssignKinds == {"Copy", "Move", "MutableBorrow"}

Noop ==
  /\ Running
  /\ Commit(Cur, [kind |-> "Comment"])
  /\ UNCHANGED <<nBegin, nEnd>>

Inhale ==
  /\ Running
  /\ \E perms \in PermInputs :
       /\ Commit(ApplyInhale(Cur, perms), [kind |-> "Inhale", perms |-> perms])
       /\ UNCHANGED <<nBegin, nEnd>>

Exhale ==
  /\ Running
  /\ \E perms \in PermInputs :
       /\ Commit(ApplyExhale(Cur, perms), [kind |-> "Exhale", perms |-> perms])
       /\ UNCHANGED <<nBegin, nEnd>>

MethodCall ==
  /\ Running
  /\ \E targets \in (SUBSET Vars) \ {{}} :
       /\ Commit(ApplyMethodCall(Cur, targets),
                 [kind |-> "MethodCall", targets |-> targets])
       /\ UNCHANGED <<nBegin, nEnd>>

Assign ==
  /\ Running
  /\ \E lhs \in Places, rhs \in Places \cup {NoPlace}, kind \in AssignKinds :
       /\ rhs # NoPlace => ~has_prefix(lhs, rhs)
       /\ rhs # NoPlace => Fits(acc, rhs, lhs) /\ Fits(pred, rhs, lhs)
       /\ Commit(ApplyAssign(Cur, lhs, rhs, kind),
                 [kind |-> "Assign", lhs |-> lhs, rhs |-> rhs, ak |-> kind])
       /\ UNCHANGED <<nBegin, nEnd>>

\* places whose predicate body lies in the model
Foldable == {p \in Places : Len(p) <= MaxDepth}

Fold ==
  /\ Running
  /\ \E place \in Foldable, frac \in Fracs :
       /\ Commit(ApplyFold(Cur, place, frac),
                 [kind |-> "Fold", place |-> place, frac |-> frac])
       /\ UNCHANGED <<nBegin, nEnd>>

Unfold ==
  /\ Running
  /\ \E place \in Foldable, frac \in Fracs :
       /\ Commit(ApplyUnfold(Cur, place, frac),
                 [kind |-> "Unfold", place |-> place, frac |-> frac])
       /\ UNCHANGED <<nBegin, nEnd>>

Havoc ==
  /\ Running
  /\ Commit(ApplyHavoc(Cur), [kind |-> "Havoc"])
  /\ UNCHANGED <<nBegin, nEnd>>

BeginFrame ==
  /\ Running
  /\ Commit(ApplyBeginFrame(Cur), [kind |-> "BeginFrame"])
  /\ nBegin' = nBegin + 1
  /\ UNCHANGED nEnd

EndFrame ==
  /\ Running
  /\ Commit(ApplyEndFrame(Cur), [kind |-> "EndFrame"])
  /\ nEnd' = IF failed' THEN nEnd ELSE nEnd + 1
  /\ UNCHANGED nBegin

ExpireBorrow ==
  /\ Running
  /\ \E lhs \in Places, rhs \in Places :
       /\ ~has_prefix(lhs, rhs)
       /\ Fits(acc, lhs, rhs) /\ Fits(pred, lhs, rhs)
       /\ Commit(ApplyExpireBorrow(Cur, lhs, rhs),
                 [kind |-> "ExpireBorrow", lhs |-> lhs, rhs |-> rhs])
       /\ UNCHANGED <<nBegin, nEnd>>

Next ==
  \/ Noop
  \/ Inhale
  \/ Exhale
  \/ MethodCall
  \/ Assign
  \/ Fold
  \/ Unfold
  \/ Havoc
  \/ BeginFrame
  \/ EndFrame
  \/ ExpireBorrow

Spec == Init /\ [][Next]_vars

(***************************************************************************)
(* Runs of frame statements between statements that take permissions away. *)
(***************************************************************************)
InitFrames == InitRun(MaxFrameSteps)

NextFrames ==
  \/ BeginFrame
  \/ EndFrame
  \/ Havoc
  \/ MethodCall

SpecFrames == InitFrames /\ [][NextFrames]_vars

(***************************************************************************)
(* The accessibility combinator.  The places of the analysed body are a    *)
(* local followed by field projections; every place above the leaves is a  *)
(* struct with the fields of MirFields.                                    *)
(***************************************************************************)
MirLocals == {"a"}

MirFields == {"f", "g"}

RECURSIVE MirPlacesOfDepth(_)
MirPlacesOfDepth(n) ==
  IF n = 0 THEN {<<v>> : v \in MirLocals}
  ELSE {Append(p, fld) : p \in MirPlacesOfDepth(n - 1), fld \in MirFields}

MirPlaces == UNION {MirPlacesOfDepth(n) : n \in 0..MaxMirDepth}

\* is_prefix(place, potential_prefix): potential_prefix is place or an
\* ancestor of place
is_prefix(place, potential_prefix) == has_prefix(place, potential_prefix)

\* the fields of the type of a place; a leaf has none
FieldsOf(place) == IF Len(place) - 1 < MaxMirDepth THEN MirFields ELSE {}

\* expand(body, tcx, place, excluded): unpack place along the path to
\* excluded, keeping every sibling met on the way and never the branch of
\* excluded
RECURSIVE expand(_, _)
expand(place, excluded) ==
  IF place = excluded \/ ~is_prefix(excluded, place) THEN {}
  ELSE LET next == SubSeq(excluded, 1, Len(place) + 1)
       IN  ({Append(place, fld) : fld \in FieldsOf(place)} \ {next})
             \cup expand(next, excluded)

\* a removal that keeps the place it unpacks
remove_place_from_set_KeepsUnpacked(to_remove, set) ==
  UNION { IF is_prefix(to_remove, old_place)
          THEN {old_place} \cup expand(old_place, to_remove)
          ELSE IF is_prefix(old_place, to_remove)
               THEN {}
               ELSE {old_place} : old_place \in set }

\* a removal that keeps the places inside the removed place
remove_place_from_set_KeepsDescendants(to_remove, set) ==
  UNION { IF is_prefix(to_remove, old_place)
          THEN expand(old_place, to_remove)
          ELSE {old_place} : old_place \in set }

\* a removal that drops the places unrelated to the removed place
remove_place_from_set_DropsUnrelated(to_remove, set) ==
  UNION { IF is_prefix(to_remove, old_place)
          THEN expand(old_place, to_remove)
          ELSE {} : old_place \in set }

remove_place_from_set(to_remove, set) ==
  UNION { IF is_prefix(to_remove, old_place)
          THEN expand(old_place, to_remove)
          ELSE IF is_prefix(old_place, to_remove)
               THEN {}
               ELSE {old_place} : old_place \in set }

\* the sets of places the upstream analyses can supply for a point
FactSets == {S \in SUBSET MirPlaces : Cardinality(S) <= MaxFacts}

\* the permission transfer engine is not run
EngineIdle ==
  /\ acc = EmptyMap
  /\ pred = EmptyMap
  /\ moved = {}
  /\ framing_stack = <<>>
  /\ dropped = {}
  /\ failed = FALSE
  /\ last = [kind |-> "None"]
  /\ applied = {}
  /\ budget = 0
  /\ nBegin = 0
  /\ nEnd = 0

\* compute_accessible_state is entered with the facts of a point
InitAccess ==
  /\ RunIdle
  /\ def_init \in FactSets
  /\ maybe_mut_borrowed \in FactSets
  /\ maybe_shared_borrowed \in FactSets
  /\ definitely_accessible = def_init
  /\ definitely_owned = {}
  /\ pc = "mut_borrowed"
  /\ todo = maybe_mut_borrowed
  /\ acc = EmptyMap
  /\ pred = EmptyMap
  /\ moved = {}
  /\ framing_stack = <<>>
  /\ dropped = {}
  /\ failed = FALSE
  /\ last = [kind |-> "None"]
  /\ applied = {}
  /\ budget = 0
  /\ nBegin = 0
  /\ nEnd = 0

\* one iteration of the loop over the mutably borrowed places
RemoveMutBorrowed ==
  /\ pc = "mut_borrowed"
  /\ \E place \in todo :
       /\ definitely_accessible' =
            remove_place_from_set(place, definitely_accessible)
       /\ todo' = todo \ {place}
  /\ UNCHANGED <<def_init, maybe_mut_borrowed, maybe_shared_borrowed,
                 definitely_owned, pc, pvars, rvars>>

\* definitely_owned starts as a copy of the initialized places
CloneDefInit ==
  /\ pc = "mut_borrowed"
  /\ todo = {}
  /\ definitely_owned' = def_init
  /\ todo' = maybe_shared_borrowed
  /\ pc' = "shared_borrowed"
  /\ UNCHANGED <<def_init, maybe_mut_borrowed, maybe_shared_borrowed,
                 definitely_accessible, pvars, rvars>>

\* the loop is over: definitely_owned starts as a copy
CloneAccessible ==
  /\ pc = "mut_borrowed"
  /\ todo = {}
  /\ definitely_owned' = definitely_accessible
  /\ todo' = maybe_shared_borrowed
  /\ pc' = "shared_borrowed"
  /\ UNCHANGED <<def_init, maybe_mut_borrowed, maybe_shared_borrowed,
                 definitely_accessible, pvars, rvars>>

\* one iteration of the loop over the shared borrowed places
RemoveSharedBorrowed ==
  /\ pc = "shared_borrowed"
  /\ \E place \in todo :
       /\ definitely_owned' = remove_place_from_set(place, definitely_owned)
       /\ todo' = todo \ {place}
  /\ UNCHANGED <<def_init, maybe_mut_borrowed, maybe_shared_borrowed,
                 definitely_accessible, pc, pvars, rvars>>

\* the state of the point is returned
ReturnState ==
  /\ pc = "shared_borrowed"
  /\ todo = {}
  /\ pc' = "done"
  /\ UNCHANGED <<def_init, maybe_mut_borrowed, maybe_shared_borrowed,
                 definitely_accessible, definitely_owned, todo, pvars, rvars>>

NextAccess ==
  \/ RemoveMutBorrowed
  \/ CloneAccessible
  \/ RemoveSharedBorrowed
  \/ ReturnState

SpecAccess == InitAccess /\ [][NextAccess]_vars

(***************************************************************************)
(* Properties of the permission transfer engine.  In an action formula the *)
(* unprimed variables are the state S a statement is applied to and the    *)
(* primed ones the state it leaves; last' is the statement.                *)
(***************************************************************************)
Accepted(k) == last'.kind = k /\ ~failed'

AcceptedAssign(ak) == Accepted("Assign") /\ last'.ak = ak

\* C1: Fold(p, place, f) accepted in a state S and followed at once by
\* Unfold(p, place, f): the Unfold is accepted and the access-map, the
\* predicate-map and the moved-set are those of S again.
C1_FoldUnfoldRoundTrip ==
  [][Accepted("Fold") =>
       LET u == ApplyUnfold(Cur', last'.place, last'.frac)
       IN  u.ok /\ u.acc = acc /\ u.pred = pred /\ u.moved = moved]_vars

\* C2: Assign(lhs, rhs, MutableBorrow) on reference-typed places of the same
\* type accepted in a state S and followed at once by ExpireBorrow(lhs, rhs):
\* the ExpireBorrow is accepted and the access-map, the predicate-map and
\* the moved-set are those of S again.
C2_ExpireUndoesBorrow ==
  [][(/\ AcceptedAssign("MutableBorrow")
      /\ is_ref(last'.lhs) /\ is_ref(last'.rhs)
      /\ get_type(last'.lhs) = get_type(last'.rhs)) =>
       LET e == ApplyExpireBorrow(Cur', last'.lhs, last'.rhs)
       IN  e.ok /\ e.acc = acc /\ e.pred = pred /\ e.moved = moved]_vars

\* (1) of C3: what S held under rhs is held, same fraction, under lhs
MoveRelocates ==
  \A p \in Places : has_prefix(p, last'.rhs) =>
    /\ acc[p] > 0 => acc'[replace_prefix(p, last'.rhs, last'.lhs)] = acc[p]
    /\ pred[p] > 0 => pred'[replace_prefix(p, last'.rhs, last'.lhs)] = pred[p]

\* the example of C3: S has the access-map {x: 1} and nothing else
OnlyX ==
  /\ acc = MapOf({<<"x">>}, Full) /\ pred = EmptyMap /\ moved = {}
  /\ last'.lhs = <<"y">> /\ last'.rhs = <<"x">>

NoMovedHasPerm == \A m \in moved : acc[m] = 0 /\ pred[m] = 0

NoMovedHasPred == \A m \in moved : pred[m] = 0

Opaque ==
  \A p \in Places : pred[p] > 0 =>
    \A q \in Places : has_proper_prefix(q, p) => acc[q] = 0 /\ pred[q] = 0

\* C5 as claimed: from a state where folded regions are opaque, they are
\* opaque after any sequence of accepted statements.
C5_OpaqueAsClaimed == ~failed => Opaque

\* the statements that take permissions away or save and restore a frame
RemovalKinds ==
  {"Comment", "Exhale", "MethodCall", "Havoc", "BeginFrame", "EndFrame"}

\* C5 amended: from a state where folded regions are opaque, they are opaque
\* after any sequence of accepted statements each of which is a no-op, an
\* Exhale, a MethodCall, a Havoc, a BeginFrame or an EndFrame.
C5_OpaqueUnderRemoval == (~failed /\ applied \subseteq RemovalKinds) => Opaque

\* an Exhale took a permission away from a state that holds a predicate
C5_Witness ==
  /\ ~failed
  /\ applied \subseteq RemovalKinds
  /\ last.kind = "Exhale"
  /\ \E p \in Places : pred[p] > 0
  /\ \E q \in last.perms : PermAmt(last.perms, q.kind, q.place) > 0
                             /\ IF q.kind = "Acc" THEN acc[q.place] = 0
                                ELSE pred[q.place] = 0

\* C8: after an accepted MethodCall(targets), every predicate permission and
\* every access permission on a place with projections that S held on a place
\* whose base is a target is in dropped with its fraction and absent from the
\* state, and no place whose base is a target is moved.
C8_MethodCallEffect ==
  [][Accepted("MethodCall") =>
       \A p \in Places : base(p) \in last'.targets =>
         /\ pred[p] > 0 => Pred(p, pred[p]) \in dropped' /\ pred'[p] = 0
         /\ (acc[p] > 0 /\ ~is_base(p)) =>
              Acc(p, acc[p]) \in dropped' /\ acc'[p] = 0
         /\ p \notin moved']_vars

\* a call with target x dropped the predicate entry {x.f: 1/2}
C8_Witness ==
  /\ last.kind = "MethodCall" /\ ~failed
  /\ "x" \in last.targets
  /\ Pred(<<"x", "f">>, 1) \in dropped
  /\ pred[<<"x", "f">>] = 0
  /\ Acc(<<"x", "g">>, 1) \in dropped

\* C9: BeginFrame followed at once by EndFrame leaves the access-map, the
\* predicate-map, the moved-set and the frame stack as they were, and the
\* dropped accumulator unchanged.
C9_FrameRoundTrip ==
  [][Accepted("BeginFrame") =>
       LET e == ApplyEndFrame(Cur')
       IN  /\ e.ok
           /\ e.acc = acc /\ e.pred = pred /\ e.moved = moved
           /\ e.fs = framing_stack
           /\ e.dropped = dropped /\ dropped' = dropped]_vars

\* a frame was begun inside a frame, in a state that holds permissions the
\* outer frame did not have
C9_Witness ==
  /\ last.kind = "BeginFrame" /\ ~failed
  /\ Len(framing_stack) = 2
  /\ framing_stack[1] # framing_stack[2]
  /\ \E p \in Places : pred[p] > 0

\* C10: an EndFrame is accepted exactly when more BeginFrame than EndFrame
\* statements were applied before it, that is when the stack is not empty,
\* and fails otherwise; the depth of the stack is the number of BeginFrame
\* minus the number of accepted EndFrame statements.
C10_FrameNesting ==
  [][/\ Len(framing_stack') = nBegin' - nEnd'
     /\ last'.kind = "EndFrame" =>
          /\ ~failed' <=> nBegin > nEnd
          /\ ~failed' <=> framing_stack # <<>>]_vars

\* an EndFrame failed on an empty stack after a matched pair of frames
C10_Witness ==
  /\ last.kind = "EndFrame" /\ failed
  /\ nBegin = 1 /\ nEnd = 1
  /\ framing_stack = <<>>

(***************************************************************************)
(* Properties of the accessibility combinator.                             *)
(***************************************************************************)
PrefixFree(S) == \A p \in S, q \in S : has_prefix(p, q) => p = q

C7_PrefixFree ==
  PrefixFree(def_init) =>
    PrefixFree(definitely_accessible) /\ PrefixFree(definitely_owned)

\* both results were unpacked from a prefix-free initialized set
C7_Witness ==
  /\ pc = "done"
  /\ PrefixFree(def_init)
  /\ Cardinality(definitely_accessible) > Cardinality(def_init)
  /\ ~(definitely_owned \subseteq definitely_accessible)

(***************************************************************************)
(* Further properties of the permission transfer engine.                   *)
(***************************************************************************)
\* C11: after Havoc the predicate-map is empty and the access-map holds
\* exactly the entries it had on base places, with their fractions.
C11_HavocEffect ==
  [][Accepted("Havoc") =>
       /\ pred' = EmptyMap
       /\ \A p \in Places : acc'[p] = IF is_base(p) THEN acc[p] ELSE 0]_vars

(***************************************************************************)
(* Further properties of the accessibility combinator.  A step that takes  *)
(* a place out of todo is one call of remove_place_from_set: on            *)
(* definitely_accessible while pc = "mut_borrowed", on definitely_owned    *)
(* while pc = "shared_borrowed".                                           *)
(***************************************************************************)
\* the leaves of the type tree
MirLeaves == MirPlacesOfDepth(MaxMirDepth)

\* the storage a set of places covers
storage(S) == {l \in MirLeaves : \E p \in S : is_prefix(l, p)}

\* a step calls remove_place_from_set(target, set) and leaves result
Removes(target, set, result) ==
  /\ target \in todo /\ target \notin todo'
  /\ \/ /\ pc = "mut_borrowed"
        /\ set = definitely_accessible /\ result = definitely_accessible'
     \/ /\ pc = "shared_borrowed"
        /\ set = definitely_owned /\ result = definitely_owned'

\* C12: for a prefix-free set, the storage covered by remove(target, set) is
\* the storage covered by set minus the storage of target, and no member of
\* the result is a prefix of target or has target as a prefix;
\* remove(a, {a.f, a.g}) = {} and remove(a.f, {a}) = {a.g}.
C12_RemoveSubtractsStorage ==
  [][\A target \in MirPlaces, set \in {definitely_accessible, definitely_owned},
       result \in {definitely_accessible', definitely_owned'} :
       (Removes(target, set, result) /\ PrefixFree(set)) =>
         /\ storage(result) = storage(set) \ storage({target})
         /\ \A m \in result : ~is_prefix(m, target) /\ ~is_prefix(target, m)
         /\ (target = <<"a">> /\ set = {<<"a", "f">>, <<"a", "g">>}) =>
              result = {}
         /\ (target = <<"a", "f">> /\ set = {<<"a">>}) =>
              result = {<<"a", "g">>}]_vars

\* remove(a.f.f, {a}) unpacked a twice and remove(a.g, .) then dropped a.g
C12_Witness ==
  /\ pc = "done"
  /\ def_init = {<<"a">>}
  /\ maybe_mut_borrowed = {<<"a", "f", "f">>}
  /\ definitely_accessible = {<<"a", "f", "g">>, <<"a", "g">>}
  /\ maybe_shared_borrowed = {<<"a", "g">>}
  /\ definitely_owned = {<<"a", "f", "g">>}

\* no member of set is a prefix of target or has target as a prefix
Unrelated(target, set) ==
  \A m \in set : ~is_prefix(m, target) /\ ~is_prefix(target, m)

\* C13: remove(target, set) returns set itself when no member of set is a
\* prefix of target or has target as a prefix.
C13_RemoveKeepsUnrelated ==
  [][\A target \in MirPlaces, set \in {definitely_accessible, definitely_owned},
       result \in {definitely_accessible', definitely_owned'} :
       (Removes(target, set, result) /\ Unrelated(target, set)) =>
         result = set]_vars

\* remove(a.g.f, {a.f, a.g.g}) and remove(a.f.f, {a.g.g}) were called on
\* sets that hold nothing related to their targets
C13_Witness ==
  /\ pc = "done"
  /\ def_init = {<<"a", "f">>, <<"a", "g", "g">>}
  /\ maybe_mut_borrowed = {<<"a", "g", "f">>}
  /\ definitely_accessible = def_init
  /\ maybe_shared_borrowed = {<<"a", "f">>, <<"a", "f", "f">>}
  /\ definitely_owned = {<<"a", "g", "g">>}

\* the sets a loop "for place in borrowed.iter() { remove_place_from_set }"
\* can leave, one for every order in which the hash set can be iterated
RECURSIVE remove_all(_, _)
remove_all(borrowed, set) ==
  IF borrowed = {} THEN {set}
  ELSE UNION {remove_all(borrowed \ {place}, remove_place_from_set(place, set)) :
                place \in borrowed}

\* C14: the removals of the members of a borrowed set give the same set in
\* every order (two places are always nested or disjoint), so that
\* definitely_accessible and definitely_owned are the only sets the two loops
\* can leave.
C14_OrderIndependent ==
  pc = "done" =>
    /\ remove_all(maybe_mut_borrowed, def_init) = {definitely_accessible}
    /\ remove_all(maybe_shared_borrowed, definitely_accessible) =
         {definitely_owned}

\* two nested places were removed, in one of the two orders, from a set that
\* holds a place around both
C14_Witness ==
  /\ pc = "done"
  /\ def_init = {<<"a">>}
  /\ maybe_mut_borrowed = {<<"a", "f">>, <<"a", "f", "g">>}
  /\ maybe_shared_borrowed = {<<"a", "g", "f">>, <<"a", "g">>}
  /\ definitely_accessible = {<<"a", "g">>}
  /\ definitely_owned = {}

(***************************************************************************)
(* Further properties of Assign.                                           *)
(***************************************************************************)
\* what S held on rhs or under it is held with the same fraction, and rhs is
\* not added to the moved-set
RhsUntouched ==
  /\ \A p \in Places : has_prefix(p, last'.rhs) =>
       acc'[p] = acc[p] /\ pred'[p] = pred[p]
  /\ last'.rhs \in moved' => last'.rhs \in moved

\* C15 as claimed: an accepted Assign(lhs, rhs, Copy) leaves every access and
\* predicate permission on rhs or under rhs as it was, whatever the prefix
\* relation of rhs to lhs, and does not add rhs to the moved-set.
C15_CopyKeepsRhsAsClaimed ==
  [][(AcceptedAssign("Copy") /\ last'.rhs # NoPlace) => RhsUntouched]_vars

\* C15 amended: an accepted Assign(lhs, rhs, Copy) whose rhs is a place that
\* neither has lhs as a prefix nor is a prefix of lhs leaves every access and
\* predicate permission on rhs or under rhs as it was and does not add rhs to
\* the moved-set; a Copy whose rhs is a reference-typed place is rejected.
C15_CopyKeepsRhs ==
  [][/\ (/\ AcceptedAssign("Copy")
         /\ last'.rhs # NoPlace
         /\ ~has_prefix(last'.rhs, last'.lhs)
         /\ ~has_prefix(last'.lhs, last'.rhs)) => RhsUntouched
     /\ (/\ last'.kind = "Assign" /\ last'.ak = "Copy"
         /\ last'.rhs # NoPlace /\ is_ref(last'.rhs)) => failed']_vars

\* a Copy from a place that holds an access permission was accepted and
\* dropped what its lhs held
C15_Witness ==
  /\ last.kind = "Assign" /\ last.ak = "Copy" /\ ~failed
  /\ last.rhs # NoPlace
  /\ ~has_prefix(last.rhs, last.lhs)
  /\ acc[last.rhs] > 0
  /\ dropped # {}

(***************************************************************************)
(* Further properties of Unfold.                                           *)
(***************************************************************************)
\* the amount a state holds for a permission
Held(s, perm) ==
  IF perm.kind = "Acc" THEN s.acc[perm.place] ELSE s.pred[perm.place]

\* C16: after an accepted Unfold(pred, place, fraction) every permission of
\* the body, self replaced by place, is held with its body amount multiplied
\* by fraction, and the predicate permission on place is fraction less.
C16_UnfoldScaledBody ==
  [][Accepted("Unfold") =>
       /\ \A perm \in BodyOf(last'.place) :
            Held(Cur', perm) = scale(perm, last'.frac).frac
       /\ pred'[last'.place] = pred[last'.place] - last'.frac]_vars

\* the precondition the spec gives for Unfold(pred, place, frac)
UnfoldPrecondition(s, place, frac) ==
  /\ s.pred[place] = frac
  /\ ~is_prefix_of_some_moved(s, place)
  /\ \A perm \in BodyOf(place) : Held(s, perm) = 0

\* C17: Unfold(pred, place, fraction) is accepted exactly when place holds
\* the predicate permission at that fraction, place is not a prefix of a
\* moved place and no permission of the substituted body is held; a rejected
\* Unfold leaves the permission state as it was.
C17_UnfoldPrecondition ==
  [][last'.kind = "Unfold" =>
       /\ ~failed' <=> UnfoldPrecondition(Cur, last'.place, last'.frac)
       /\ failed' => acc' = acc /\ pred' = pred /\ moved' = moved]_vars

\* a Move or MutableBorrow whose rhs is a prefix of a moved place is rejected
MovedRhsRejected ==
  (/\ last'.kind = "Assign"
   /\ last'.ak \in {"Move", "MutableBorrow"}
   /\ last'.rhs # NoPlace
   /\ is_prefix_of_some_moved(Cur, last'.rhs)) => failed'

\* C18 as claimed: after an accepted Assign(l1, rhs, Move), for every l1, an
\* Assign(l2, rhs, Move) that follows at once is rejected for every l2; a
\* Move or MutableBorrow whose rhs is a prefix of a moved place is rejected.
C18_DoubleMoveAsClaimed ==
  [][/\ AcceptedAssign("Move") =>
          \A l2 \in Places : ~ApplyAssign(Cur', l2, last'.rhs, "Move").ok
     /\ MovedRhsRejected]_vars

\* C18 amended: after an accepted Assign(l1, rhs, Move) whose l1 is not a
\* prefix of rhs, an Assign(l2, rhs, Move) that follows at once is rejected
\* for every l2; a Move or MutableBorrow whose rhs is a prefix of a place of
\* the moved-set is rejected.
C18_DoubleMove ==
  [][/\ (AcceptedAssign("Move") /\ ~has_prefix(last'.rhs, last'.lhs)) =>
          \A l2 \in Places : ~ApplyAssign(Cur', l2, last'.rhs, "Move").ok
     /\ MovedRhsRejected]_vars

\* the second of two moves of the same place was rejected
C18_Witness ==
  /\ last.kind = "Assign" /\ last.ak = "Move" /\ failed
  /\ applied = {"Assign"}
  /\ budget = 0
  /\ last.rhs \in moved
  /\ acc[last.rhs] > 0

\* C19 as claimed: after an accepted Assign(lhs, rhs, kind) every access and
\* every predicate permission that S held on lhs or under lhs is in dropped
\* with its fraction.
C19_AssignDropsLhsAsClaimed ==
  [][Accepted("Assign") =>
       \A p \in Places : has_prefix(p, last'.lhs) =>
         /\ pred[p] > 0 => Pred(p, pred[p]) \in dropped'
         /\ acc[p] > 0 => Acc(p, acc[p]) \in dropped']_vars

\* C19 amended: after an accepted Assign(lhs, rhs, kind) every predicate
\* permission that S held on lhs or under lhs and every access permission
\* that S held under lhs is in dropped with its fraction; the access
\* permission on lhs itself is not added to dropped.
C19_AssignDropsLhs ==
  [][Accepted("Assign") =>
       /\ \A p \in Places : has_prefix(p, last'.lhs) =>
            /\ pred[p] > 0 => Pred(p, pred[p]) \in dropped'
            /\ (acc[p] > 0 /\ p # last'.lhs) => Acc(p, acc[p]) \in dropped'
       /\ \A q \in dropped' \ dropped :
            ~(q.kind = "Acc" /\ q.place = last'.lhs)]_vars

\* the first statement, an Assign, dropped an access and a predicate
\* permission held under its lhs and kept the access permission on lhs
C19_Witness ==
  /\ last.kind = "Assign" /\ ~failed
  /\ budget = MaxSteps - 1
  /\ \E q \in dropped : q.kind = "Acc" /\ has_proper_prefix(q.place, last.lhs)
  /\ \E q \in dropped : q.kind = "Pred" /\ has_prefix(q.place, last.lhs)
  /\ acc[last.lhs] > 0

(***************************************************************************)
(* run_analysis: for every block, the state before every statement and     *)
(* before the terminator, then the state on the edge to every successor of *)
(* the terminator.  A fact the upstream analyses do not supply makes the   *)
(* run panic.                                                              *)
(***************************************************************************)
\* number of basic blocks of a body
MaxBlocks == 2
\* largest number of statements of a block
MaxStatements == 1
\* largest number of facts the upstream analyses fail to supply
MaxMissing == 1

Blocks == 0..(MaxBlocks - 1)

\* the bodies: the number of statements and the successors of every block
Bodies ==
  [statements : [Blocks -> 0..MaxStatements],
   successors : [Blocks -> SUBSET Blocks]]

\* the two upstream analyses
Upstream == {"def_init", "borrowed"}

\* the keys of the facts: analysis, kind of point, block, and statement
\* index or successor
Before(analysis, blk, index) == <<analysis, "before", blk, index>>

AfterBlock(analysis, blk) == <<analysis, "after_block", blk, 0>>

Edge(analysis, blk, successor) == <<analysis, "edge", blk, successor>>

\* every fact a run over body b looks up
Queried(b) ==
  UNION {{Before(a, blk, i) : i \in 0..b.statements[blk]}
           \cup {AfterBlock(a, blk)}
           \cup {Edge(a, blk, s) : s \in b.successors[blk]} :
         a \in Upstream, blk \in Blocks}

RECURSIVE SubsetsUpTo(_, _)
SubsetsUpTo(S, n) ==
  IF n = 0 THEN {{}}
  ELSE LET smaller == SubsetsUpTo(S, n - 1)
       IN  smaller \cup {m \cup {k} : m \in smaller, k \in S}

\* the facts of a point: initialized, mutably borrowed and shared borrowed
\* places
RunFacts ==
  [def_init : {{<<"a">>}},
   maybe_mut_borrowed : {{}, {<<"a", "f">>, <<"a", "f", "g">>}},
   maybe_shared_borrowed : {{}, {<<"a", "f">>}}]

\* what the upstream analyses give for body b: an error of one of them or
\* results, the queried facts their results lack, and the facts they hold
\* before the statements and on the edges
FactsOf(b) ==
  [error : {"none"} \cup Upstream,
   missing : SubsetsUpTo(Queried(b), MaxMissing),
   before : RunFacts,
   after : RunFacts]

\* the states compute_accessible_state can return for the facts of a point
compute_accessible_state(t) ==
  UNION {{[definitely_accessible |-> accessible, definitely_owned |-> owned] :
            owned \in remove_all(t.maybe_shared_borrowed, accessible)} :
         accessible \in remove_all(t.maybe_mut_borrowed, t.def_init)}

\* state.check_invariant(): both sets are prefix-free and every owned place
\* is accessible
check_invariant(state) ==
  /\ PrefixFree(state.definitely_accessible)
  /\ PrefixFree(state.definitely_owned)
  /\ state.definitely_owned \subseteq state.definitely_accessible

\* a lookup of both analyses finds its fact
Supplied(key(_)) == \A a \in Upstream : key(a) \notin facts.missing

InitAnalysis ==
  /\ body \in Bodies
  /\ facts \in FactsOf(body)
  /\ analysis_state = {}
  /\ rpc = "upstream"
  /\ block = 0
  /\ statement_index = 0
  /\ successors = {}
  /\ EngineIdle
  /\ AccessIdle

Panic ==
  /\ rpc' = "panicked"
  /\ UNCHANGED <<analysis_state, block, statement_index, successors>>

\* lines 45-50: the upstream analyses are run, an error of one is returned
RunUpstream ==
  /\ rpc = "upstream"
  /\ rpc' = IF facts.error = "none" THEN "before" ELSE "error"
  /\ UNCHANGED <<analysis_state, block, statement_index, successors>>
  /\ UNCHANGED <<body, facts, pvars, avars>>

\* a loop that leaves the position of the terminator out
SetBefore_SkipsTerminator ==
  /\ rpc = "before"
  /\ LET Key(a) == Before(a, block, statement_index)
     IN  IF statement_index >= body.statements[block]
         THEN /\ rpc' = "after_block"
              /\ UNCHANGED <<analysis_state, block, statement_index,
                             successors>>
         ELSE IF ~Supplied(Key) THEN Panic
         ELSE \E state \in compute_accessible_state(facts.before) :
                IF ~check_invariant(state) THEN Panic
                ELSE /\ analysis_state' = analysis_state \cup
                          {<<"before", block, statement_index, state>>}
                     /\ statement_index' = statement_index + 1
                     /\ UNCHANGED <<rpc, block, successors>>
  /\ UNCHANGED <<body, facts, pvars, avars>>

\* lines 55-69: one iteration of the loop over 0..=statements.len()
SetBefore ==
  /\ rpc = "before"
  /\ LET Key(a) == Before(a, block, statement_index)
     IN  IF ~Supplied(Key) THEN Panic
         ELSE \E state \in compute_accessible_state(facts.before) :
                IF ~check_invariant(state) THEN Panic
                ELSE /\ analysis_state' = analysis_state \cup
                          {<<"before", block, statement_index, state>>}
                     /\ IF statement_index < body.statements[block]
                        THEN /\ statement_index' = statement_index + 1
                             /\ UNCHANGED rpc
                        ELSE /\ rpc' = "after_block"
                             /\ UNCHANGED statement_index
                     /\ UNCHANGED <<block, successors>>
  /\ UNCHANGED <<body, facts, pvars, avars>>

\* lines 72-78: the facts after the block are looked up
LookupAfterBlock ==
  /\ rpc = "after_block"
  /\ LET Key(a) == AfterBlock(a, block)
     IN  IF ~Supplied(Key) THEN Panic
         ELSE /\ successors' = body.successors[block]
              /\ rpc' = "successors"
              /\ UNCHANGED <<analysis_state, block, statement_index>>
  /\ UNCHANGED <<body, facts, pvars, avars>>

\* lines 79-89: one iteration of the loop over the successors
InsertSuccessor ==
  /\ rpc = "successors"
  /\ \E successor \in successors :
       LET Key(a) == Edge(a, block, successor)
       IN  IF ~Supplied(Key) THEN Panic
           ELSE \E state \in compute_accessible_state(facts.after) :
                  IF ~check_invariant(state) THEN Panic
                  ELSE /\ analysis_state' = analysis_state \cup
                            {<<"edge", block, successor, state>>}
                       /\ successors' = successors \ {successor}
                       /\ UNCHANGED <<rpc, block, statement_index>>
  /\ UNCHANGED <<body, facts, pvars, avars>>

\* lines 52 and 92: the next block, or Ok(analysis_state) after the last
NextBlock ==
  /\ rpc = "successors"
  /\ successors = {}
  /\ IF block + 1 < MaxBlocks
     THEN /\ block' = block + 1
          /\ statement_index' = 0
          /\ rpc' = "before"
     ELSE /\ rpc' = "returned"
          /\ UNCHANGED <<block, statement_index>>
  /\ UNCHANGED <<analysis_state, successors>>
  /\ UNCHANGED <<body, facts, pvars, avars>>

NextAnalysis ==
  \/ RunUpstream
  \/ SetBefore
  \/ LookupAfterBlock
  \/ InsertSuccessor
  \/ NextBlock

SpecAnalysis == InitAnalysis /\ [][NextAnalysis]_vars

(***************************************************************************)
(* Properties of run_analysis.                                             *)
(***************************************************************************)
\* the result holds a state before every statement and before the
\* terminator of every block, and on every edge to a successor
Total ==
  /\ \A blk \in Blocks : \A i \in 0..body.statements[blk] :
       \E e \in analysis_state : e[1] = "before" /\ e[2] = blk /\ e[3] = i
  /\ \A blk \in Blocks : \A s \in body.successors[blk] :
       \E e \in analysis_state : e[1] = "edge" /\ e[2] = blk /\ e[3] = s

\* a state computed from the facts of the run fails check_invariant
SomeCheckFails ==
  \E state \in compute_accessible_state(facts.before)
                 \cup compute_accessible_state(facts.after) :
    ~check_invariant(state)

ExpireKeepsMoved ==
  Accepted("ExpireBorrow") =>
    /\ \A m \in moved : ~has_prefix(m, last'.rhs)
    /\ moved' = moved

\* C21 as claimed: an accepted ExpireBorrow(lhs, rhs) leaves the moved-set
\* as it was, and ExpireBorrow(lhs, rhs) directly after an accepted
\* Assign(lhs, rhs, Move) is rejected, for every lhs and rhs.
C21_ExpireKeepsMovedAsClaimed ==
  [][/\ ExpireKeepsMoved
     /\ AcceptedAssign("Move") =>
          ~ApplyExpireBorrow(Cur', last'.lhs, last'.rhs).ok]_vars

\* C21 amended: an accepted ExpireBorrow(lhs, rhs) leaves the moved-set as
\* it was, and ExpireBorrow(lhs, rhs) directly after an accepted
\* Assign(lhs, rhs, Move) whose lhs is not a prefix of rhs is rejected.
C21_ExpireKeepsMoved ==
  [][/\ ExpireKeepsMoved
     /\ (AcceptedAssign("Move") /\ ~has_prefix(last'.rhs, last'.lhs)) =>
          ~ApplyExpireBorrow(Cur', last'.lhs, last'.rhs).ok]_vars

\* an ExpireBorrow was accepted after a Move and the moved place is still
\* moved
C21_Witness ==
  /\ last.kind = "ExpireBorrow" /\ ~failed
  /\ "Assign" \in applied
  /\ moved # {}
  /\ acc[last.rhs] > 0

====
